---- MODULE Spec2Model ----
(***************************************************************************)
(* OverlayBuffScanner (src/main.py): a hotkey thread (toggle_running,      *)
(* on_select_region, quit), the monitor_loop threads it spawns and the     *)
(* overlay_loop thread, all sharing self.running, self.stop_event and the  *)
(* per-template dicts of self.cfg["buffs"] without any lock.  Every step   *)
(* below is one access to a shared object; purely local computation is     *)
(* folded into the step that follows it.                                   *)
(***************************************************************************)
EXTENDS Integers, Sequences, FiniteSets, TLC

(* Python's None, where the other values are tuples *)
None == << >>
(* frame[y:y + t_h, x:x + t_w], the matched sub-rectangle *)
Crop == <<"crop">>

(* number of monitor_loop threads that can be alive at once in the model *)
MaxThreads == 2
Threads == 1..MaxThreads

(* DEFAULT_CONFIG["threshold"], in percent *)
ThresholdPct == 82
(* the scores cv2.minMaxLoc can report, in percent: below, at and above *)
Scores == {ThresholdPct - 1, ThresholdPct, 100}

(* templates of cfg["buffs"], in declaration order *)
Buffs == {1, 2}
LastBuff == Cardinality(Buffs)

(* b["template"] after load_templates: None or an image of shape <<t_h, t_w>> *)
Catalogs ==
  { <<[name |-> "A", template |-> None],     [name |-> "B", template |-> None]>>,
    <<[name |-> "A", template |-> None],     [name |-> "B", template |-> <<1, 1>>]>>,
    <<[name |-> "A", template |-> <<1, 2>>], [name |-> "B", template |-> <<1, 1>>]>> }

(* a Region is <<left, top, right, bottom>> *)
InitRegions == { <<0, 0, 2, 2>> }
(* DEFAULT_CONFIG["search_region"] *)
DefaultRegion == <<300, 1000, 1100, 1050>>
(* the names of the declared templates *)
Names == {c[b].name : c \in Catalogs, b \in Buffs}

(* press and release points of the drag gestures the picker is given *)
Drags ==
  { << <<1, 2>>, <<0, 0>> >>,
    << <<0, 0>>, <<2, 2>> >>,
    << <<1, 1>>, <<1, 1>> >> }

VARIABLES
  running,        \* self.running
  stop,           \* self.stop_event.is_set()
  monitor_thread, \* self.monitor_thread: slot of the latest thread, 0 for None
  cfgRegion,      \* self.cfg["search_region"]
  cfgFile,        \* config.json on disk
  buffs,          \* self.cfg["buffs"]: name and template of each entry
  active,         \* b["active"] (an absent key reads as falsy)
  icon,           \* b["icon_data"]
  destroyed,      \* overlay_root has been destroyed
  terminated,     \* os._exit(0) has run
  hpc, hi,        \* hotkey thread: position, index of b in the pause loop
  pc, region, mi, \* monitor_loop threads: position, region local, index of b
  opc, oi, oActive, labels, \* overlay_loop thread
  prov,           \* history: which publish wrote each field, see Publish below
  track,          \* whether the history is recorded in this specification
  bpc,            \* main thread: position in __main__ and __init__
  drag,           \* the gesture given to the picker: <<press, release>>, or None
  clock,          \* time.time()
  now,            \* monitor_loop threads: the local now of the cycle
  last_seen,      \* b["last_seen"]
  placed,         \* Label widgets placed on overlay_root: per name, their positions
  held,           \* history: b has stayed active since its last_seen was written
  misses,         \* history: consecutive captures of a thread that gave no frame
  scored,         \* history: the score of each b in the cycle a thread is in
  record          \* which of held, misses, scored this specification records

shared == <<running, stop, monitor_thread, cfgRegion, cfgFile, buffs, active, icon,
            destroyed, terminated>>
hvars == <<hpc, hi>>
mvars == <<pc, region, mi>>
ovars == <<opc, oi, oActive, labels>>
hist == <<prov, track>>
rest == <<bpc, drag, clock, now, last_seen, placed>>
ghost == <<held, misses, scored, record>>
vars == <<shared, hvars, mvars, ovars, hist, rest, ghost>>

(* monitor threads that run next to the overlay in SpecLoops *)
MaxLoopThreads == 1
LoopThreads == 1..MaxLoopThreads

(* the clock is read up to this value *)
MaxClock == 1
(* consecutive captures without a frame are counted up to this many *)
MaxMisses == 2

(* positions of a monitor_loop thread that has not returned or raised *)
Live == {"m276", "m284", "m285", "m291", "m294", "m295", "m303", "m304", "m305"}


(* json.dump accepts None, numbers, strings, lists; a numpy array raises TypeError *)
JsonSerializable(b) == buffs[b].template = None /\ icon[b] = None

(* save_config: open(CONFIG_PATH, "w") truncates, json.dump(indent=2) streams the
   text chunk by chunk ("search_region" first) and stops at the first value it
   cannot encode, leaving a truncated file behind *)
save_config(r) ==
  [exists |-> TRUE, region |-> r, complete |-> \A b \in Buffs : JsonSerializable(b)]

(* config.json when CONFIG_PATH.exists() is false *)
Missing == [exists |-> FALSE, region |-> None, complete |-> FALSE]

(* load_config: json.load of an existing file, which raises JSONDecodeError on
   text that is not a complete JSON document, or else DEFAULT_CONFIG, written
   back with save_config.  The result is what is raised or returned and the
   file left behind. *)
load_config(file) ==
  IF file.exists
    THEN IF file.complete
           THEN [raised |-> FALSE, region |-> file.region, file |-> file]
           ELSE [raised |-> TRUE, region |-> None, file |-> file]
    ELSE [raised |-> FALSE, region |-> DefaultRegion, file |-> save_config(DefaultRegion)]

Min(a, b) == IF a <= b THEN a ELSE b
Max(a, b) == IF a <= b THEN b ELSE a
(* the rect as it would be without the two sorted() calls *)
on_button_release_unsorted(p, q) == <<p[1], p[2], q[1], q[2]>>

(* pick_region_via_drag.on_button_release: sorted([x0, x1]), sorted([y0, y1]) *)
on_button_release(p, q) ==
  <<Min(p[1], q[1]), Min(p[2], q[2]), Max(p[1], q[1]), Max(p[2], q[2])>>

(***************************************************************************)
(* History of publishes.  Every pass of a writer over one record (lines    *)
(* 294-295, 303-304, 307-308 of monitor_loop, 257-258 of toggle_running,   *)
(* 170-171 of load_templates) is one publish of that record.  prov holds a *)
(* tag per holder: the publish that last wrote b["active"] (aIx) and       *)
(* b["icon_data"] (iIx), the publish a writer is in the middle of (wIx, 0  *)
(* is the hotkey thread), and the publish overlay_loop read b["active"]    *)
(* from (rIx).  Only equality of tags matters, so they are renumbered in   *)
(* order of first appearance after every change.                           *)
(***************************************************************************)
NoTag == 0 - 1
aIx(b) == 2 * b - 1
iIx(b) == 2 * b
wIx(w) == 2 * LastBuff + 1 + w
rIx == 2 * LastBuff + MaxThreads + 2

FirstAt(seq, v) == CHOOSE j \in DOMAIN seq : seq[j] = v /\ \A k \in DOMAIN seq : seq[k] = v => j <= k
Canon(seq) ==
  [k \in DOMAIN seq |->
     IF seq[k] = NoTag THEN NoTag
     ELSE Cardinality({seq[j] : j \in 1..(FirstAt(seq, seq[k]) - 1)} \ {NoTag})]

ProvSet(p) ==
  IF track THEN prov' = Canon(p) /\ track' = track ELSE UNCHANGED hist

(* writer w writes b["active"] (ix = aIx(b)) or b["icon_data"] (ix = iIx(b)) as
   the first or the second write of its publish of b *)
Publish(w, ix, first) ==
  LET tag == IF first THEN Len(prov) ELSE prov[wIx(w)] IN
    ProvSet([k \in DOMAIN prov |->
               IF k = ix THEN tag
               ELSE IF k = wIx(w) THEN (IF first THEN tag ELSE NoTag)
               ELSE prov[k]])

(* overlay_loop reads b["active"] and goes on to read b["icon_data"], or not *)
ReadActive(b, goesOn) ==
  ProvSet([prov EXCEPT ![rIx] = IF goesOn THEN prov[aIx(b)] ELSE NoTag])
(* overlay_loop is done with the record it was reading *)
Forget(done) ==
  ProvSet([prov EXCEPT ![rIx] = IF done THEN NoTag ELSE prov[rIx]])

(* the other histories, each kept only in the specifications that record it *)
HeldSet(h) == held' = IF "held" \in record THEN h ELSE held
MissesSet(m) == misses' = IF "misses" \in record THEN m ELSE misses
ScoredSet(sc) == scored' = IF "scored" \in record THEN sc ELSE scored

InitProvValue ==
  [k \in 1..rIx |-> IF k <= 2 * LastBuff THEN (k - 1) \div 2 ELSE NoTag]

(* the state after BuffMonitorApp.__init__ *)
InitState ==
  /\ running = FALSE
  /\ stop = FALSE
  /\ monitor_thread = 0
  /\ cfgRegion \in InitRegions
  /\ cfgFile = [exists |-> TRUE, region |-> cfgRegion, complete |-> TRUE]
  /\ buffs \in Catalogs
  /\ active = [b \in Buffs |-> FALSE]
  /\ icon = [b \in Buffs |-> None]
  /\ destroyed = FALSE
  /\ terminated = FALSE
  /\ hpc = "idle" /\ hi = 1
  /\ pc = [t \in Threads |-> "none"]
  /\ region = [t \in Threads |-> None]
  /\ mi = [t \in Threads |-> 1]
  /\ opc = "o191" /\ oi = 1 /\ oActive = {} /\ labels = {}
  /\ prov = InitProvValue
  /\ bpc = "b320"
  /\ drag = None
  /\ clock = 0
  /\ now = [t \in Threads |-> 0]
  /\ last_seen = [b \in Buffs |-> 0]
  /\ placed = [n \in Names |-> << >>]
  /\ held = [b \in Buffs |-> FALSE]
  /\ misses = [t \in Threads |-> 0]
  /\ scored = [t \in Threads |-> [b \in Buffs |-> NoTag]]

Init == InitState /\ track = FALSE /\ record = {}

(***************************************************************************)
(* Startup on the main thread: __main__ (lines 312-320) and __init__.      *)
(***************************************************************************)

(* config.json as the program may find it: absent, cut short, or complete *)
StartFiles ==
  {Missing} \cup {[exists |-> TRUE, region |-> r, complete |-> c] :
                     r \in InitRegions, c \in BOOLEAN}

(* the declarations of cfg["buffs"] before load_templates has added the keys *)
Declared(c) == [b \in Buffs |-> [name |-> c[b].name, template |-> None]]

(* the state when __main__ is about to call load_config, line 315 *)
InitStartup ==
  /\ running = FALSE
  /\ stop = FALSE
  /\ monitor_thread = 0
  /\ cfgRegion = None
  /\ cfgFile \in StartFiles
  /\ buffs \in {Declared(c) : c \in Catalogs}
  /\ active = [b \in Buffs |-> FALSE]
  /\ icon = [b \in Buffs |-> None]
  /\ destroyed = FALSE
  /\ terminated = FALSE
  /\ hpc = "unregistered" /\ hi = 1
  /\ pc = [t \in Threads |-> "none"]
  /\ region = [t \in Threads |-> None]
  /\ mi = [t \in Threads |-> 1]
  /\ opc = "none" /\ oi = 1 /\ oActive = {} /\ labels = {}
  /\ prov = InitProvValue
  /\ track = FALSE
  /\ bpc = "b315"
  /\ drag = None
  /\ clock = 0
  /\ now = [t \in Threads |-> 0]
  /\ last_seen = [b \in Buffs |-> 0]
  /\ placed = [n \in Names |-> << >>]
  /\ held = [b \in Buffs |-> FALSE]
  /\ misses = [t \in Threads |-> 0]
  /\ scored = [t \in Threads |-> [b \in Buffs |-> NoTag]]
  /\ record = {}

(* line 315: cfg = load_config(); an exception ends the program with a traceback *)
main_load_config ==
  /\ bpc = "b315" /\ ~terminated
  /\ LET res == load_config(cfgFile) IN
       /\ cfgFile' = res.file
       /\ bpc' = IF res.raised THEN "loadRaised" ELSE "b134"
  /\ UNCHANGED <<running, stop, monitor_thread, cfgRegion, buffs, active, icon,
                 destroyed, terminated, hvars, mvars, ovars>>
  /\ UNCHANGED <<hist, drag, clock, now, last_seen, placed, ghost>>

(* line 134: self.cfg = load_config() *)
init_load_config ==
  /\ bpc = "b134" /\ ~terminated
  /\ LET res == load_config(cfgFile) IN
       /\ cfgFile' = res.file
       /\ cfgRegion' = IF res.raised THEN cfgRegion ELSE res.region
       /\ bpc' = IF res.raised THEN "loadRaised" ELSE "b138"
  /\ UNCHANGED <<running, stop, monitor_thread, buffs, active, icon,
                 destroyed, terminated, hvars, mvars, ovars>>
  /\ UNCHANGED <<hist, drag, clock, now, last_seen, placed, ghost>>

(* line 138, load_templates: each declared file is found and decoded, or not *)
load_templates ==
  /\ bpc = "b138" /\ ~terminated
  /\ \E c \in Catalogs :
       /\ \A b \in Buffs : c[b].name = buffs[b].name
       /\ buffs' = c
  /\ active' = [b \in Buffs |-> FALSE]
  /\ icon' = [b \in Buffs |-> None]
  /\ last_seen' = [b \in Buffs |-> 0]
  /\ bpc' = "b144"
  /\ UNCHANGED <<running, stop, monitor_thread, cfgRegion, cfgFile,
                 destroyed, terminated, hvars, mvars, ovars>>
  /\ UNCHANGED <<hist, drag, clock, now, placed, ghost>>

(* lines 144-146: keyboard.add_hotkey for the three callbacks *)
add_hotkeys ==
  /\ bpc = "b144" /\ ~terminated
  /\ hpc' = "idle"
  /\ bpc' = "b153"
  /\ UNCHANGED <<shared, hi, mvars, ovars>>
  /\ UNCHANGED <<hist, drag, clock, now, last_seen, placed, ghost>>

(* line 153, start_overlay: the surface is created and overlay_loop started; the
   main thread goes on to keyboard.wait(), line 320 *)
start_overlay ==
  /\ bpc = "b153" /\ ~terminated
  /\ opc' = "o191"
  /\ bpc' = "b320"
  /\ UNCHANGED <<shared, hvars, mvars, oi, oActive, labels>>
  /\ UNCHANGED <<hist, drag, clock, now, last_seen, placed, ghost>>

Startup ==
  \/ main_load_config \/ init_load_config \/ load_templates
  \/ add_hotkeys \/ start_overlay

(***************************************************************************)
(* The hotkey thread.  The callbacks registered with keyboard.add_hotkey   *)
(* are taken to run one after the other on the library's own thread, each  *)
(* step interleaved with the steps of the other threads.                   *)
(***************************************************************************)

(* toggle_running, lines 245-247 and 251-253: test and flip self.running *)
toggle_running ==
  /\ hpc = "idle" /\ ~terminated
  /\ running' = ~running
  /\ hpc' = IF ~running THEN "t248" ELSE "t254"
  /\ UNCHANGED <<stop, monitor_thread, cfgRegion, cfgFile, buffs, active, icon,
                 destroyed, terminated, hi, mvars, ovars>>
  /\ UNCHANGED hist
  /\ UNCHANGED rest
  /\ UNCHANGED ghost

(* line 248: self.stop_event.clear() *)
toggle_clear_stop ==
  /\ hpc = "t248" /\ ~terminated
  /\ stop' = FALSE
  /\ hpc' = "t249"
  /\ UNCHANGED <<running, monitor_thread, cfgRegion, cfgFile, buffs, active, icon,
                 destroyed, terminated, hi, mvars, ovars>>
  /\ UNCHANGED hist
  /\ UNCHANGED rest
  /\ UNCHANGED ghost

(* thread slots of S whose monitor_loop has returned, raised or never ran *)
FreeSlots(S) == {t \in S : pc[t] \notin Live}

(* lines 249-250: a new monitor_loop thread is created and started; the previous
   thread is neither joined nor checked.  S is the set of thread slots in use. *)
toggle_start_thread(S) ==
  /\ hpc = "t249" /\ ~terminated
  /\ FreeSlots(S) # {}
  /\ LET t == CHOOSE x \in FreeSlots(S) : \A y \in FreeSlots(S) : x <= y IN
       /\ monitor_thread' = t
       /\ pc' = [pc EXCEPT ![t] = "m276"]
       /\ region' = [region EXCEPT ![t] = None]
       /\ mi' = [mi EXCEPT ![t] = 1]
  /\ hpc' = "idle"
  /\ UNCHANGED <<running, stop, cfgRegion, cfgFile, buffs, active, icon,
                 destroyed, terminated, hi, ovars>>
  /\ UNCHANGED hist
  /\ UNCHANGED rest
  /\ UNCHANGED ghost

(* line 254: self.stop_event.set() *)
toggle_set_stop ==
  /\ hpc = "t254" /\ ~terminated
  /\ stop' = TRUE
  /\ hpc' = "t257"
  /\ hi' = 1
  /\ UNCHANGED <<running, monitor_thread, cfgRegion, cfgFile, buffs, active, icon,
                 destroyed, terminated, mvars, ovars>>
  /\ UNCHANGED hist
  /\ UNCHANGED rest
  /\ UNCHANGED ghost

(* line 257: b["active"] = False *)
toggle_clear_active ==
  /\ hpc = "t257" /\ ~terminated
  /\ active' = [active EXCEPT ![hi] = FALSE]
  /\ hpc' = "t258"
  /\ UNCHANGED <<running, stop, monitor_thread, cfgRegion, cfgFile, buffs, icon,
                 destroyed, terminated, hi, mvars, ovars>>
  /\ Publish(0, aIx(hi), TRUE)
  /\ UNCHANGED rest
  /\ HeldSet([held EXCEPT ![hi] = FALSE])
  /\ UNCHANGED <<misses, scored, record>>

(* line 258: b["icon_data"] = None, then the next b or return *)
toggle_clear_icon ==
  /\ hpc = "t258" /\ ~terminated
  /\ icon' = [icon EXCEPT ![hi] = None]
  /\ IF hi < LastBuff
       THEN hi' = hi + 1 /\ hpc' = "t257"
       ELSE hi' = 1 /\ hpc' = "idle"
  /\ UNCHANGED <<running, stop, monitor_thread, cfgRegion, cfgFile, buffs, active,
                 destroyed, terminated, mvars, ovars>>
  /\ Publish(0, iIx(hi), FALSE)
  /\ UNCHANGED rest
  /\ UNCHANGED ghost

(* on_select_region, line 235: the modal picker opens *)
on_select_region ==
  /\ hpc = "idle" /\ ~terminated
  /\ hpc' = "s235"
  /\ UNCHANGED <<shared, hi, mvars, ovars>>
  /\ UNCHANGED hist
  /\ UNCHANGED rest
  /\ UNCHANGED ghost

(* lines 235-239: pick_region_via_drag is given a gesture of D and returns
   result["rect"] set by on_button_release; a list of four numbers is truthy, so
   the branch of line 236 is taken and self.cfg["search_region"] = rect *)
pick_drag(D) ==
  /\ hpc = "s235" /\ ~terminated
  /\ \E d \in D :
       /\ drag' = d
       /\ cfgRegion' = on_button_release(d[1], d[2])
  /\ hpc' = "s240"
  /\ UNCHANGED <<running, stop, monitor_thread, cfgFile, buffs, active, icon,
                 destroyed, terminated, hi, mvars, ovars>>
  /\ UNCHANGED hist
  /\ UNCHANGED <<bpc, clock, now, last_seen, placed>>
  /\ UNCHANGED ghost

pick_release == pick_drag(Drags)

(* on_esc: the picker returns None and the else branch of line 241 is taken *)
pick_esc ==
  /\ hpc = "s235" /\ ~terminated
  /\ hpc' = "s242"
  /\ UNCHANGED <<shared, hi, mvars, ovars>>
  /\ UNCHANGED hist
  /\ UNCHANGED rest
  /\ UNCHANGED ghost

(* on_select_region as it would be with save_config outside the if of line 236 *)
select_cancelled_saves ==
  /\ hpc = "s242" /\ ~terminated
  /\ cfgFile' = save_config(cfgRegion)
  /\ hpc' = "idle"
  /\ UNCHANGED <<running, stop, monitor_thread, cfgRegion, buffs, active, icon,
                 destroyed, terminated, hi, mvars, ovars>>
  /\ UNCHANGED hist
  /\ UNCHANGED rest
  /\ UNCHANGED ghost

(* line 242: print("Region selection cancelled.") and return *)
select_cancelled ==
  /\ hpc = "s242" /\ ~terminated
  /\ hpc' = "idle"
  /\ UNCHANGED <<shared, hi, mvars, ovars>>
  /\ UNCHANGED hist
  /\ UNCHANGED rest
  /\ UNCHANGED ghost

(* line 240: save_config(self.cfg); a TypeError ends the callback as well *)
select_save ==
  /\ hpc = "s240" /\ ~terminated
  /\ cfgFile' = save_config(cfgRegion)
  /\ drag' = None
  /\ hpc' = "idle"
  /\ UNCHANGED <<running, stop, monitor_thread, cfgRegion, buffs, active, icon,
                 destroyed, terminated, hi, mvars, ovars>>
  /\ UNCHANGED hist
  /\ UNCHANGED <<bpc, clock, now, last_seen, placed>>
  /\ UNCHANGED ghost

(* quit, line 262: self.running = False *)
quit ==
  /\ hpc = "idle" /\ ~terminated
  /\ running' = FALSE
  /\ hpc' = "q263"
  /\ UNCHANGED <<stop, monitor_thread, cfgRegion, cfgFile, buffs, active, icon,
                 destroyed, terminated, hi, mvars, ovars>>
  /\ UNCHANGED hist
  /\ UNCHANGED rest
  /\ UNCHANGED ghost

(* line 263: self.stop_event.set() *)
quit_set_stop ==
  /\ hpc = "q263" /\ ~terminated
  /\ stop' = TRUE
  /\ hpc' = "q266"
  /\ UNCHANGED <<running, monitor_thread, cfgRegion, cfgFile, buffs, active, icon,
                 destroyed, terminated, hi, mvars, ovars>>
  /\ UNCHANGED hist
  /\ UNCHANGED rest
  /\ UNCHANGED ghost

(* lines 264-268: overlay_root.destroy() destroys the surface or raises, and
   whatever it raises is swallowed *)
quit_destroy ==
  /\ hpc = "q266" /\ ~terminated
  /\ destroyed' \in {TRUE, destroyed}
  /\ placed' = IF destroyed' THEN [n \in Names |-> << >>] ELSE placed
  /\ hpc' = "q269"
  /\ UNCHANGED <<running, stop, monitor_thread, cfgRegion, cfgFile, buffs, active, icon,
                 terminated, hi, mvars, ovars>>
  /\ UNCHANGED hist
  /\ UNCHANGED <<bpc, drag, clock, now, last_seen>>
  /\ UNCHANGED ghost

(* quit as it would be if it joined the loops before leaving *)
quit_exit_join ==
  /\ hpc = "q269" /\ ~terminated
  /\ \A t \in Threads : pc[t] \notin Live
  /\ opc \in {"ended", "oRaised"}
  /\ terminated' = TRUE
  /\ hpc' = "exited"
  /\ UNCHANGED <<running, stop, monitor_thread, cfgRegion, cfgFile, buffs, active, icon,
                 destroyed, hi, mvars, ovars>>
  /\ UNCHANGED hist
  /\ UNCHANGED rest
  /\ UNCHANGED ghost

(* line 269: os._exit(0) ends the process at once, whatever the loops are doing *)
quit_exit ==
  /\ hpc = "q269" /\ ~terminated
  /\ terminated' = TRUE
  /\ hpc' = "exited"
  /\ UNCHANGED <<running, stop, monitor_thread, cfgRegion, cfgFile, buffs, active, icon,
                 destroyed, hi, mvars, ovars>>
  /\ UNCHANGED hist
  /\ UNCHANGED rest
  /\ UNCHANGED ghost

Toggle(S) ==
  \/ toggle_running \/ toggle_clear_stop \/ toggle_start_thread(S)
  \/ toggle_set_stop \/ toggle_clear_active \/ toggle_clear_icon
Select ==
  on_select_region \/ pick_release \/ pick_esc \/ select_cancelled \/ select_save
Quit == quit \/ quit_set_stop \/ quit_destroy \/ quit_exit

(***************************************************************************)
(* monitor_loop, one instance per started thread                           *)
(***************************************************************************)

(* lines 276-280: the region is read once into locals *)
monitor_read_region(t) ==
  /\ pc[t] = "m276" /\ ~terminated
  /\ region' = [region EXCEPT ![t] = cfgRegion]
  /\ pc' = [pc EXCEPT ![t] = "m284"]
  /\ UNCHANGED <<shared, hvars, mi, ovars>>
  /\ UNCHANGED hist
  /\ UNCHANGED rest
  /\ UNCHANGED ghost

(* line 284: while self.running and not self.stop_event.is_set() *)
monitor_while(t) ==
  /\ pc[t] = "m284" /\ ~terminated
  /\ pc' = [pc EXCEPT ![t] = IF running /\ ~stop THEN "m285" ELSE "done"]
  /\ UNCHANGED <<shared, hvars, region, mi, ovars>>
  /\ UNCHANGED hist
  /\ UNCHANGED rest
  /\ UNCHANGED ghost

(* dxcam accepts a region only if left < right and top < bottom *)
ValidRegion(r) == r[1] < r[3] /\ r[2] < r[4]
(* shape <<height, width>> of the frame grabbed for region r *)
FrameShape(r) == <<r[4] - r[2], r[3] - r[1]>>

(* monitor_loop as it would be if a capture without a frame were an error *)
monitor_grab_escalates(t) ==
  /\ pc[t] = "m285" /\ ~terminated
  /\ \/ /\ pc' = [pc EXCEPT ![t] = "grabRaised"]
        /\ mi' = mi /\ now' = now
        /\ MissesSet([misses EXCEPT ![t] = Min(misses[t] + 1, MaxMisses)])
        /\ scored' = scored
     \/ /\ ValidRegion(region[t])
        /\ mi' = [mi EXCEPT ![t] = 1]
        /\ now' = [now EXCEPT ![t] = clock]
        /\ pc' = [pc EXCEPT ![t] = "m291"]
        /\ MissesSet([misses EXCEPT ![t] = 0])
        /\ ScoredSet([scored EXCEPT ![t] = [b \in Buffs |-> NoTag]])
  /\ UNCHANGED <<shared, hvars, region, ovars>>
  /\ UNCHANGED hist
  /\ UNCHANGED <<bpc, drag, clock, last_seen, placed>>
  /\ UNCHANGED <<held, record>>

(* lines 285-289: self.camera.grab(region=...).  No frame: sleep and test the loop
   condition again.  A frame: now = time.time().  A region dxcam rejects yields
   no frame or raises.  misses counts up to MaxMisses and stays there. *)
monitor_grab(t) ==
  /\ pc[t] = "m285" /\ ~terminated
  /\ \/ /\ pc' = [pc EXCEPT ![t] = "m284"]
        /\ mi' = mi /\ now' = now
        /\ MissesSet([misses EXCEPT ![t] = Min(misses[t] + 1, MaxMisses)])
        /\ scored' = scored
     \/ /\ ValidRegion(region[t])
        /\ mi' = [mi EXCEPT ![t] = 1]
        /\ now' = [now EXCEPT ![t] = clock]
        /\ pc' = [pc EXCEPT ![t] = "m291"]
        /\ MissesSet([misses EXCEPT ![t] = 0])
        /\ ScoredSet([scored EXCEPT ![t] = [b \in Buffs |-> NoTag]])
     \/ /\ ~ValidRegion(region[t])
        /\ pc' = [pc EXCEPT ![t] = "grabRaised"]
        /\ mi' = mi /\ now' = now
        /\ misses' = misses /\ scored' = scored
  /\ UNCHANGED <<shared, hvars, region, ovars>>
  /\ UNCHANGED hist
  /\ UNCHANGED <<bpc, drag, clock, last_seen, placed>>
  /\ UNCHANGED <<held, record>>

(* cv2.matchTemplate(frame, tmpl): when the frame is smaller than the template in
   some dimension the two are swapped, and the call asserts that the frame is
   then no larger than the template in either dimension; otherwise cv2.error *)
matchTemplate(f, tm) ==
  IF (f[1] < tm[1] \/ f[2] < tm[2]) /\ ~(f[1] <= tm[1] /\ f[2] <= tm[2])
    THEN "error" ELSE "ok"

(* lines 291-299 and 306: the next b, its template, the score and the comparison
   with the threshold; nothing shared is written.  scored keeps the score, 0 for
   a b that has no template to score. *)
monitor_match(t) ==
  /\ pc[t] = "m291" /\ ~terminated
  /\ LET tm == buffs[mi[t]].template IN
       IF tm = None
         THEN /\ pc' = [pc EXCEPT ![t] = "m294"]
              /\ ScoredSet([scored EXCEPT ![t][mi[t]] = 0])
         ELSE IF matchTemplate(FrameShape(region[t]), tm) = "error"
           THEN /\ pc' = [pc EXCEPT ![t] = "matchRaised"]
                /\ scored' = scored
           ELSE \E max_val \in Scores :
                  /\ pc' = [pc EXCEPT ![t] = IF max_val >= ThresholdPct THEN "m303" ELSE "m294"]
                  /\ ScoredSet([scored EXCEPT ![t][mi[t]] = max_val])
  /\ UNCHANGED <<shared, hvars, region, mi, ovars>>
  /\ UNCHANGED hist
  /\ UNCHANGED rest
  /\ UNCHANGED <<held, misses, record>>

(* lines 294 and 307: b["active"] = False *)
monitor_write_inactive(t) ==
  /\ pc[t] = "m294" /\ ~terminated
  /\ active' = [active EXCEPT ![mi[t]] = FALSE]
  /\ pc' = [pc EXCEPT ![t] = "m295"]
  /\ UNCHANGED <<running, stop, monitor_thread, cfgRegion, cfgFile, buffs, icon,
                 destroyed, terminated, hvars, region, mi, ovars>>
  /\ Publish(t, aIx(mi[t]), TRUE)
  /\ UNCHANGED rest
  /\ HeldSet([held EXCEPT ![mi[t]] = FALSE])
  /\ UNCHANGED <<misses, scored, record>>

(* after the body for b: the next b, or time.sleep(0.05) and the loop test *)
NextBuff(t) ==
  IF mi[t] < LastBuff
    THEN /\ mi' = [mi EXCEPT ![t] = mi[t] + 1]
         /\ pc' = [pc EXCEPT ![t] = "m291"]
    ELSE /\ mi' = [mi EXCEPT ![t] = 1]
         /\ pc' = [pc EXCEPT ![t] = "m284"]

(* lines 295 and 308: b["icon_data"] = None *)
monitor_write_no_icon(t) ==
  /\ pc[t] = "m295" /\ ~terminated
  /\ icon' = [icon EXCEPT ![mi[t]] = None]
  /\ NextBuff(t)
  /\ UNCHANGED <<running, stop, monitor_thread, cfgRegion, cfgFile, buffs, active,
                 destroyed, terminated, hvars, region, ovars>>
  /\ Publish(t, iIx(mi[t]), FALSE)
  /\ UNCHANGED rest
  /\ UNCHANGED ghost

(* line 303: b["icon_data"] = frame[y:y + t_h, x:x + t_w] *)
monitor_write_icon(t) ==
  /\ pc[t] = "m303" /\ ~terminated
  /\ icon' = [icon EXCEPT ![mi[t]] = Crop]
  /\ pc' = [pc EXCEPT ![t] = "m304"]
  /\ UNCHANGED <<running, stop, monitor_thread, cfgRegion, cfgFile, buffs, active,
                 destroyed, terminated, hvars, region, mi, ovars>>
  /\ Publish(t, iIx(mi[t]), TRUE)
  /\ UNCHANGED rest
  /\ UNCHANGED ghost

(* line 304: b["active"] = True *)
monitor_write_active(t) ==
  /\ pc[t] = "m304" /\ ~terminated
  /\ active' = [active EXCEPT ![mi[t]] = TRUE]
  /\ pc' = [pc EXCEPT ![t] = "m305"]
  /\ UNCHANGED <<running, stop, monitor_thread, cfgRegion, cfgFile, buffs, icon,
                 destroyed, terminated, hvars, region, mi, ovars>>
  /\ Publish(t, aIx(mi[t]), FALSE)
  /\ UNCHANGED rest
  /\ UNCHANGED ghost

(* line 305: b["last_seen"] = now *)
monitor_write_last_seen(t) ==
  /\ pc[t] = "m305" /\ ~terminated
  /\ last_seen' = [last_seen EXCEPT ![mi[t]] = now[t]]
  /\ NextBuff(t)
  /\ UNCHANGED <<shared, hvars, region, ovars>>
  /\ UNCHANGED hist
  /\ UNCHANGED <<bpc, drag, clock, now, placed>>
  /\ HeldSet([held EXCEPT ![mi[t]] = active[mi[t]]])
  /\ UNCHANGED <<misses, scored, record>>

monitor_loop(t) ==
  \/ monitor_read_region(t) \/ monitor_while(t) \/ monitor_grab(t) \/ monitor_match(t)
  \/ monitor_write_inactive(t) \/ monitor_write_no_icon(t)
  \/ monitor_write_icon(t) \/ monitor_write_active(t) \/ monitor_write_last_seen(t)

Monitor == \E t \in Threads : monitor_loop(t)

(* time passes: time.time() returns a later value from now on *)
Tick ==
  /\ clock < MaxClock /\ ~terminated
  /\ clock' = clock + 1
  /\ UNCHANGED <<shared, hvars, mvars, ovars, hist, ghost>>
  /\ UNCHANGED <<bpc, drag, now, last_seen, placed>>

(***************************************************************************)
(* overlay_loop, started once by start_overlay                             *)
(***************************************************************************)

(* line 191: while not self.stop_event.is_set() *)
overlay_while ==
  /\ opc = "o191" /\ ~terminated
  /\ IF stop
       THEN opc' = "ended" /\ UNCHANGED <<oi, oActive>>
       ELSE opc' = "o194a" /\ oi' = 1 /\ oActive' = {}
  /\ UNCHANGED <<shared, hvars, mvars, labels>>
  /\ UNCHANGED hist
  /\ UNCHANGED rest
  /\ UNCHANGED ghost

(* line 194, b.get("active") of the comprehension *)
overlay_list_active ==
  /\ opc = "o194a" /\ ~terminated
  /\ IF active[oi]
       THEN opc' = "o194i" /\ oi' = oi
       ELSE IF oi < LastBuff
              THEN opc' = "o194a" /\ oi' = oi + 1
              ELSE opc' = "o197" /\ oi' = 1
  /\ UNCHANGED <<shared, hvars, mvars, oActive, labels>>
  /\ ReadActive(oi, active[oi])
  /\ UNCHANGED rest
  /\ UNCHANGED ghost

(* line 194, b.get("icon_data") is not None *)
overlay_list_icon ==
  /\ opc = "o194i" /\ ~terminated
  /\ oActive' = IF icon[oi] # None THEN oActive \cup {oi} ELSE oActive
  /\ IF oi < LastBuff
       THEN opc' = "o194a" /\ oi' = oi + 1
       ELSE opc' = "o197" /\ oi' = 1
  /\ UNCHANGED <<shared, hvars, mvars, labels>>
  /\ Forget(TRUE)
  /\ UNCHANGED rest
  /\ UNCHANGED ghost

(* lines 197-207: labels whose name is not in the active list are forgotten and
   deleted; on a destroyed surface place_forget raises and the del is skipped *)
overlay_remove ==
  /\ opc = "o197" /\ ~terminated
  /\ labels' = IF destroyed THEN labels
               ELSE {k \in labels : \E b \in oActive : buffs[b].name = k}
  /\ placed' = [n \in Names |-> IF n \in labels \ labels' THEN << >> ELSE placed[n]]
  /\ opc' = "o209a" /\ oi' = 1 /\ oActive' = {}
  /\ UNCHANGED <<shared, hvars, mvars>>
  /\ UNCHANGED hist
  /\ UNCHANGED <<bpc, drag, clock, now, last_seen>>
  /\ UNCHANGED ghost

(* the next b of the loop of line 208, or the update of line 225 *)
OverlayNext ==
  IF oi < LastBuff
    THEN opc' = "o209a" /\ oi' = oi + 1
    ELSE opc' = "o225" /\ oi' = 1

(* line 209: not b.get("active") *)
overlay_check_active ==
  /\ opc = "o209a" /\ ~terminated
  /\ IF active[oi]
       THEN opc' = "o209i" /\ oi' = oi
       ELSE OverlayNext
  /\ UNCHANGED <<shared, hvars, mvars, oActive, labels>>
  /\ ReadActive(oi, active[oi])
  /\ UNCHANGED rest
  /\ UNCHANGED ghost

(* line 209: b.get("icon_data") is None *)
overlay_check_icon ==
  /\ opc = "o209i" /\ ~terminated
  /\ IF icon[oi] # None
       THEN opc' = "o212" /\ oi' = oi
       ELSE OverlayNext
  /\ UNCHANGED <<shared, hvars, mvars, oActive, labels>>
  /\ Forget(icon[oi] = None)
  /\ UNCHANGED rest
  /\ UNCHANGED ghost

(* lines 214-223 without the test of line 214: a new Label every pass *)
PlaceNew(name, i) == [placed EXCEPT ![name] = Append(placed[name], i)]

(* lines 214-223 with the position counted over the Labels shown, not over
   cfg["buffs"] *)
PlacePacked(name, i) ==
  IF name \notin labels
    THEN [placed EXCEPT ![name] = Append(placed[name], Cardinality(labels))]
    ELSE [placed EXCEPT ![name] = [j \in DOMAIN placed[name] |-> Cardinality(labels) - 1]]

(* lines 214-223: a new Label placed at x0 + i * spacing for a name that has
   none, else the Label of the name is given the image and placed there again;
   i of enumerate is oi - 1 *)
Place(name, i) ==
  IF name \notin labels
    THEN [placed EXCEPT ![name] = Append(placed[name], i)]
    ELSE [placed EXCEPT ![name] = [j \in DOMAIN placed[name] |-> i]]

(* lines 211-223: b["icon_data"] is read again and drawn; cv2.cvtColor(None) and
   any Tk call on a destroyed surface raise, and nothing here catches it *)
overlay_draw ==
  /\ opc = "o212" /\ ~terminated
  /\ IF icon[oi] = None \/ destroyed
       THEN opc' = "oRaised" /\ UNCHANGED <<oi, labels, placed>>
       ELSE /\ labels' = labels \cup {buffs[oi].name}
            /\ placed' = Place(buffs[oi].name, oi - 1)
            /\ OverlayNext
  /\ UNCHANGED <<shared, hvars, mvars, oActive>>
  /\ Forget(TRUE)
  /\ UNCHANGED <<bpc, drag, clock, now, last_seen>>
  /\ UNCHANGED ghost

(* lines 224-230: update(); TclError on a destroyed surface breaks the loop *)
overlay_update ==
  /\ opc = "o225" /\ ~terminated
  /\ opc' = IF destroyed THEN "ended" ELSE "o191"
  /\ UNCHANGED <<shared, hvars, mvars, oi, oActive, labels>>
  /\ UNCHANGED hist
  /\ UNCHANGED rest
  /\ UNCHANGED ghost

overlay_loop ==
  \/ overlay_while \/ overlay_list_active \/ overlay_list_icon \/ overlay_remove
  \/ overlay_check_active \/ overlay_check_icon \/ overlay_draw \/ overlay_update

Next == Startup \/ Toggle(Threads) \/ Select \/ Quit \/ Monitor \/ overlay_loop \/ Tick

Spec == Init /\ [][Next]_vars

(* the hotkey thread and the monitor threads: overlay_loop writes nothing they read *)
NextControl == Toggle(Threads) \/ Select \/ Quit \/ Monitor
SpecControl == Init /\ [][NextControl]_vars

(* toggle, quit, the monitor threads and the overlay, with the region unchanged *)
NextLoops ==
  Toggle(LoopThreads) \/ Quit \/ (\E t \in LoopThreads : monitor_loop(t)) \/ overlay_loop
SpecLoops == Init /\ [][NextLoops]_vars

(* the same steps with the history of publishes recorded *)
InitProv == InitState /\ track = TRUE /\ record = {}
SpecProv == InitProv /\ [][NextLoops]_vars

(* the hotkey thread is scheduled: a quit callback that has begun runs on *)
QuitSteps == quit_set_stop \/ quit_destroy \/ quit_exit
FairLoops == SpecLoops /\ WF_vars(QuitSteps)

(* the hotkey thread and one monitor thread *)
NextSolo ==
  Toggle(LoopThreads) \/ Select \/ Quit \/ (\E t \in LoopThreads : monitor_loop(t))

(* the program from the first line of __main__ *)
NextStartup == Startup \/ NextSolo
SpecStartup == InitStartup /\ [][NextStartup]_vars

(* toggles, selections and one monitor thread *)
NextSelect == Toggle(LoopThreads) \/ Select \/ (\E t \in LoopThreads : monitor_loop(t))
SpecSelect == Init /\ [][NextSelect]_vars

(* the picker given every gesture between the points of a small grid *)
Coords == {0, 100, 500}
Points == Coords \X Coords
AllDrags == Points \X Points
NextPick ==
  on_select_region \/ pick_drag(AllDrags) \/ pick_esc \/ select_cancelled \/ select_save
SpecPick == Init /\ [][NextPick]_vars

(* toggles and the monitor threads under a clock that advances *)
InitClock == InitState /\ track = FALSE /\ record = {"held"}
NextClock == Toggle(Threads) \/ Monitor \/ Tick
SpecClock == InitClock /\ [][NextClock]_vars

(* one monitor thread with the scores of its cycle recorded *)
InitScore == InitState /\ track = FALSE /\ record = {"scored"}
SpecScore == InitScore /\ [][NextSolo]_vars

(* toggle, quit and one monitor thread on the region of the configuration, with
   the captures that gave no frame counted; the monitor thread is scheduled *)
InitRetry == InitState /\ track = FALSE /\ record = {"misses"}
NextRetry == Toggle(LoopThreads) \/ Quit \/ (\E t \in LoopThreads : monitor_loop(t))
SpecRetry == InitRetry /\ [][NextRetry]_vars
FairRetry == SpecRetry /\ \A t \in LoopThreads : WF_vars(monitor_loop(t))

(***************************************************************************)
(* Properties                                                              *)
(***************************************************************************)

AllClear == \A b \in Buffs : ~active[b] /\ icon[b] = None

(* C1: once the pause branch of toggle_running has returned and until the next
   toggle, no record is active and none keeps a crop *)
PauseClearsState ==
  (~running /\ hpc \in {"idle", "s235", "s240", "s242"}) => AllClear

(* C2: when overlay_loop reads b["active"] and then b["icon_data"] of one record
   in one pass, both values come from the same publish *)
NoTornRead ==
  [][(opc \in {"o194i", "o209i", "o212"} /\ opc' # opc) => prov[iIx(oi)] = prov[rIx]]_vars

(* C3: at most one monitor_loop thread is alive *)
SingleWriter == Cardinality({t \in Threads : pc[t] \in Live}) <= 1

(* C4: a capture issued while Running uses the region that the monitor_loop of
   the current run read when it started *)
RegionPinning ==
  [][\A t \in Threads :
       (/\ pc[t] = "m285" /\ pc'[t] # "m285"
        /\ running /\ monitor_thread \in Threads
        /\ region[monitor_thread] # None)
       => region[t] = region[monitor_thread]]_vars

(* the template of the b a thread is at is wider or taller than its frame *)
Oversize(t) ==
  /\ region[t] # None
  /\ buffs[mi[t]].template # None
  /\ \/ buffs[mi[t]].template[1] > FrameShape(region[t])[1]
     \/ buffs[mi[t]].template[2] > FrameShape(region[t])[2]

(* C5: a template larger than the frame is left inactive without scoring, and
   the monitor loop carries on *)
GeometricGuard ==
  \A t \in Threads :
    /\ pc[t] # "matchRaised"
    /\ pc[t] \in {"m303", "m304", "m305"} => ~Oversize(t)

(* C6: after a successful selection config.json holds the new region and is a
   complete record *)
SelectionPersisted ==
  hpc # "s240" => (cfgFile.complete /\ cfgFile.region = cfgRegion)

(* C7: the region stored in Config has right > left and bottom > top *)
StoredRegionValid == cfgRegion[3] > cfgRegion[1] /\ cfgRegion[4] > cfgRegion[2]

(* C8: a quit callback that has begun ends the process, whatever the monitor and
   overlay loops are doing and whether or not they ever take another step *)
QuitTerminates == (hpc \in {"q263", "q266", "q269"}) ~> terminated
(* the process has ended with both loops in the middle of a cycle *)
QuitMidCycle ==
  /\ terminated
  /\ \E t \in Threads : pc[t] \in {"m291", "m303", "m304"}
  /\ opc \in {"o209i", "o212"}

(* the run of thread t has been stopped by a toggle-off *)
Stopped(t) ==
  /\ pc[t] \in Live
  /\ t # monitor_thread \/ ~running \/ hpc \in {"t248", "t249"}

(* C9: a stopped run never passes the loop test of line 284 again, so it issues
   no capture beyond the one in flight *)
StopsWithinOneCycle ==
  [][\A t \in Threads : (Stopped(t) /\ pc[t] = "m284") => pc'[t] # "m285"]_vars

(* C10: overlay_loop leaves its loop only after quit has set the stop event *)
OverlaySurvivesToggle ==
  opc = "ended" => hpc \in {"q266", "q269", "exited"}

(* C11: load_config never ends startup: after the first call config.json is a
   complete document, after the second the Config in memory is the one on disk *)
ConfigLoadRecovers ==
  /\ bpc # "loadRaised"
  /\ bpc \in {"b134", "b138"} => (cfgFile.exists /\ cfgFile.complete)
  /\ bpc = "b138" => cfgRegion = cfgFile.region

(* C12: at most one Label is placed on the overlay for each template name *)
RendererUniqueness == \A n \in Names : Len(placed[n]) <= 1
(* a pass is about to draw a name that an earlier pass gave its Label *)
LabelRedrawn ==
  /\ opc = "o212" /\ icon[oi] # None /\ ~destroyed
  /\ buffs[oi].name \in labels
  /\ Len(placed[buffs[oi].name]) = 1

(* C13: the region of a drag is that of the reverse drag, its left and top are
   the smaller and its right and bottom the larger coordinates of the two
   points, and the two drags between (500,500) and (100,100) give
   [100,100,500,500] *)
DragDirectionIndependent ==
  hpc = "s240" =>
    /\ cfgRegion = on_button_release(drag[2], drag[1])
    /\ cfgRegion[1] <= cfgRegion[3] /\ cfgRegion[2] <= cfgRegion[4]
    /\ {cfgRegion[1], cfgRegion[3]} = {drag[1][1], drag[2][1]}
    /\ {cfgRegion[2], cfgRegion[4]} = {drag[1][2], drag[2][2]}
    /\ drag \in { << <<500, 500>>, <<100, 100>> >>, << <<100, 100>>, <<500, 500>> >> }
         => cfgRegion = <<100, 100, 500, 500>>
(* the drag from (500,500) up to (100,100) has been released *)
DraggedBackwards ==
  /\ hpc = "s240"
  /\ drag = << <<500, 500>>, <<100, 100>> >>
  /\ cfgRegion = <<100, 100, 500, 500>>

(* the Config: the region and the template declarations in memory, and config.json *)
Config == <<cfgRegion, buffs, cfgFile>>

(* C14: from the call of on_select_region to its return after a cancel, no step
   of any thread changes the Config *)
CancelLeavesConfig ==
  [][(hpc' \in {"s235", "s242"} \/ hpc = "s242") => Config' = Config]_vars
(* the picker was cancelled while a monitor thread was running *)
CancelledWhileRunning ==
  /\ hpc = "s242" /\ running
  /\ \E t \in Threads : pc[t] \in Live
  /\ cfgFile.complete /\ cfgFile.region = cfgRegion

(* C15: a write of b["last_seen"] to a record that has stayed active since the
   write before it does not lower the value *)
LastSeenMonotone ==
  [][\A t \in Threads :
       (pc[t] = "m305" /\ pc'[t] # "m305" /\ held[mi[t]])
       => last_seen'[mi[t]] >= last_seen[mi[t]]]_vars

(* C16: a capture never ends the monitor loop, and a thread that is between
   captures that gave no frame when Running ends returns, unless monitoring is
   started again or the process has ended first *)
RetryNeverEscalates ==
  /\ [][\A t \in LoopThreads :
          pc[t] = "m285" => pc'[t] \in {"m285", "m284", "m291"}]_vars
  /\ \A t \in LoopThreads :
       (misses[t] > 0 /\ pc[t] \in {"m284", "m285"} /\ ~running)
         ~> (pc[t] = "done" \/ running \/ terminated)
(* a thread has returned after MaxMisses or more captures in a row gave no frame *)
StoppedInStreak ==
  \E t \in LoopThreads : pc[t] = "done" /\ misses[t] = MaxMisses /\ ~terminated

(* C17: a cycle that has a frame evaluates every b, and when it ends each loaded
   b is active exactly if its score reached the threshold, with a crop exactly
   if it is active *)
CycleOutcome ==
  [][\A t \in Threads :
       /\ pc'[t] # "matchRaised"
       /\ (pc[t] \in {"m295", "m305"} /\ pc'[t] = "m284") =>
            \A b \in Buffs :
              /\ scored[t][b] # NoTag
              /\ buffs[b].template # None =>
                   /\ active'[b] = (scored[t][b] >= ThresholdPct)
                   /\ (icon'[b] # None) = active'[b]]_vars

(* C18: a b whose template failed to load is never active, keeps no crop and
   gets no Label, and every Label is placed at the index its b has in
   cfg["buffs"], whatever the entries before it *)
FailedTemplateDisabled ==
  \A b \in Buffs :
    /\ buffs[b].template = None =>
         /\ ~active[b] /\ icon[b] = None
         /\ buffs[b].name \notin labels /\ placed[buffs[b].name] = << >>
    /\ placed[buffs[b].name] # << >> => placed[buffs[b].name] = <<b - 1>>
(* the Label of a loaded b is placed after a b that failed to load *)
PlacedAfterFailed ==
  \E b \in Buffs :
    /\ b > 1 /\ buffs[b - 1].template = None
    /\ placed[buffs[b].name] = <<b - 1>>

(* C19: the crop overlay_loop reads at line 212 to draw is present *)
DrawSeesCrop ==
  [][(opc = "o212" /\ opc' # "o212") => icon[oi] # None]_vars

(* C20: a record that is active has a crop *)
ActiveHasCrop == \A b \in Buffs : active[b] => icon[b] # None

====
